---- MODULE Spec2Model ----
(***************************************************************************)
(* Model of package player (src/options.go, src/playback.go): the Player   *)
(* queue and waiter broker, the control mailbox, the scheduler worker      *)
(* (playback / openAndPlay / play), the client operations Enqueue, Clear,  *)
(* Skip, Pause and Close, and further goroutines calling poll as the       *)
(* package's own tests do.                                                 *)
(*                                                                         *)
(* Enqueue, Clear and Close run entirely under Player.mu (deferred         *)
(* Unlock), so at most one of them is past its Lock at any time: "mu"      *)
(* names the operation holding the mutex and a call blocked in Lock is a   *)
(* call whose first action is not yet enabled.  poll reads the quit        *)
(* channel before it locks, so the worker has a position between the two.  *)
(***************************************************************************)
EXTENDS Integers, Sequences, FiniteSets, TLC

\* ---------------------------------------------------------------- bounds
MaxItems == 2
MaxQueueLength == 1
MaxFrames == 1
MaxOptFrames == 4
MaxPause == 1
MaxCtlPause == 2
MaxPollers == 2
MaxOpens == 3
MaxChannels == 2

\* ------------------------------------------------------ program constants
CtrlCap == 1
FrameDur == 20

Items == 1..MaxItems
NoItem == 0
Pollers == 1..MaxPollers
Channels == 1..MaxChannels
\* d.writer == nil
NoChannel == 0
\* the playback goroutine as a caller of poll
Playback == 0

VARIABLES
    cfgQueueLength,    \* config.QueueLength
    cfgIdleTimeout,    \* config.IdleTimeout (milliseconds)
    progressInterval,  \* callbacks.progressInterval of the items (milliseconds)
    startPauses,       \* TRUE if the watched item's onStart callback calls p.Pause()
    srcFrames,         \* the most frames an item's source delivers before its end
    quit,              \* TRUE once Player.quit is closed
    quitCloses,        \* number of close(p.quit) executed
    wg,                \* counter of Player.wg
    mu,                \* holder of Player.mu
    queue,             \* Player.queue
    waiters,           \* Player.waiters: [who, dead], who = the enrolling caller
    ctrl,              \* Player.ctrl, a buffered channel
    writer,            \* Player.writer: "nil", "open" or "closed"
    wpc,               \* position of the playback goroutine
    song,              \* item the playback goroutine holds
    pollTimeout,       \* playback's pollTimeout
    nWrites,           \* play's nWrites
    ready,             \* play's ready channel: TRUE = ticker.C, FALSE = nil
    perr,              \* error openAndPlay returns
    idleCalls,         \* calls of cfg.Idle
    nextId,            \* next item an Enqueue call creates
    result,            \* what each Enqueue call returned
    enqItem,           \* item of the Enqueue holding the mutex
    ci,                \* index of clear's range loop
    pauseCalls,        \* Pause calls made
    watch,             \* the item whose callbacks are recorded
    hist,              \* the callbacks invoked so far on item watch
    sentFor,           \* the item whose frame loop, still running, was running when the pending signal was sent
    closeSnap,         \* queue as the successful Close found it
    closeSong,         \* item in play's frame loop when Close closed quit
    closeEnded,        \* items whose onEnd Close invoked, in order
    closeNil,          \* Close calls that returned nil
    closeErr,          \* TRUE once a Close call returned ErrClosed
    ppc,               \* position or result of each goroutine calling poll
    ptimeout,          \* the timeout each of them passed to poll
    pgot,              \* the item poll returned to each of them
    enrolled,          \* the callers that enrolled as waiters, in order
    deferAtLock,       \* TRUE: Device.Open defers the Unlock right after the Lock (discordvoice/writer.go); FALSE: after the join (part_007)
    dmu,               \* TRUE while Device.mu is locked
    dwriter,           \* channel of Device.writer, NoChannel for nil
    dready,            \* what Device.writer.Ready() would return
    dpc,               \* position of the caller of Device.Open
    dch,               \* the channelID passed to Open
    dres,              \* what the last Open returned
    dcalls             \* calls of Open so far

cfgVars == <<cfgQueueLength, cfgIdleTimeout, progressInterval, startPauses, srcFrames>>
playerVars == <<quit, quitCloses, wg, mu, queue, waiters, ctrl, writer>>
workerVars == <<wpc, song, pollTimeout, nWrites, ready, perr, idleCalls>>
clientVars == <<nextId, result, enqItem, ci, pauseCalls>>
ghostVars == <<watch, hist, sentFor, closeSnap, closeSong, closeEnded, closeNil, closeErr>>
pollerVars == <<ppc, ptimeout, pgot, enrolled>>
devVars == <<deferAtLock, dmu, dwriter, dready, dpc, dch, dres, dcalls>>
vars == <<cfgVars, playerVars, workerVars, clientVars, ghostVars, pollerVars, devVars>>

\* ----------------------------------------------------------------- helpers
QueueLengths == 0..MaxQueueLength
IdleTimeouts == {0, 1}
ProgressIntervals == {0, FrameDur}
\* every value of QueueLength told apart by Enqueue: below 1, and bounds
AllQueueLengths == -1..MaxQueueLength
\* progress intervals below, at and above the frame duration, multiples or not
AllProgressIntervals ==
    {0 - FrameDur, 0, FrameDur \div 2, FrameDur, 2 * FrameDur, 2 * FrameDur + FrameDur \div 2}

Ev(cb, e, err, by) == [cb |-> cb, elapsed |-> e, err |-> err, by |-> by]

\* The callback cb of item i is invoked; the invocations on the watched item,
\* which Init draws from all items, are recorded.
Call(i, cb, e, err, by) == IF i = watch THEN Append(hist, Ev(cb, e, err, by)) ELSE hist

\* An elapsed time that counts the frame about to be read.
elapsed_ahead == (nWrites + 1) * FrameDur

\* elapsed = time.Duration(nWrites) * frameDur, zero before the first write
elapsed == nWrites * FrameDur

\* ------------------------------------------------------------------- New
\* The player New returns, and the options of the calls to come.
New ==
    /\ cfgQueueLength \in AllQueueLengths
    /\ cfgIdleTimeout \in IdleTimeouts
    /\ progressInterval \in AllProgressIntervals
    /\ startPauses \in BOOLEAN
    /\ srcFrames \in {MaxFrames, MaxOptFrames}
    /\ quit = FALSE
    /\ quitCloses = 0
    /\ wg = 0
    /\ mu = "free"
    /\ queue = <<>>
    /\ waiters = <<>>
    /\ ctrl = <<>>
    /\ writer = "nil"
    /\ wpc = "start"
    /\ song = NoItem
    /\ pollTimeout = 0
    /\ nWrites = 0
    /\ ready = TRUE
    /\ perr = "nil"
    /\ idleCalls = 1
    /\ nextId = 1
    /\ result = [i \in Items |-> "none"]
    /\ enqItem = NoItem
    /\ ci = 1
    /\ pauseCalls = 0
    /\ watch \in Items
    /\ hist = <<>>
    /\ sentFor = NoItem
    /\ closeSnap = <<>>
    /\ closeSong = NoItem
    /\ closeEnded = <<>>
    /\ closeNil = 0
    /\ closeErr = FALSE
    /\ ppc = [p \in Pollers |-> "idle"]
    /\ ptimeout = [p \in Pollers |-> 0]
    /\ pgot = [p \in Pollers |-> NoItem]
    /\ enrolled = <<>>
    /\ deferAtLock \in BOOLEAN
    /\ dmu = FALSE
    /\ dwriter = NoChannel
    /\ dready = FALSE
    /\ dpc = "idle"
    /\ dch = NoChannel
    /\ dres = "none"
    /\ dcalls = 0

\* Short sources, a queue bound of zero or more, and progress reported for
\* every frame or not at all.
ShortSources ==
    /\ srcFrames = MaxFrames
    /\ cfgQueueLength \in QueueLengths
    /\ progressInterval \in ProgressIntervals

\* No callback of an item calls back into the player.
Init == New /\ ShortSources /\ ~startPauses /\ deferAtLock

\* --------------------------------------------------------------- Enqueue
\* Enqueue with the length test off by one.
IsFull_offByOne(q) == cfgQueueLength > 0 /\ Len(q) > cfgQueueLength

\* Enqueue with no length test.
IsFull_never(q) == FALSE

\* Enqueue comparing the length with a bound below 1 as well.
IsFull_anyBound(q) == Len(q) >= cfgQueueLength

\* if p.cfg.QueueLength > 0 && len(p.queue) >= p.cfg.QueueLength
IsFull(q) == cfgQueueLength > 0 /\ Len(q) >= cfgQueueLength

\* Enqueue putting the item at the front of the queue.
push_front(q, i) == <<i>> \o q

\* Enqueue returning success without keeping the item.
push_lost(q, i) == q

\* p.queue = append(p.queue, item)
push(q, i) == Append(q, i)

\* Enqueue that never looks for a waiter.
NoWaiters_always(ws) == TRUE

\* Enqueue that gives up the hand-off as soon as some waiter is dead.
NoWaiters_orDead(ws) == Len(ws) = 0 \/ \E k \in DOMAIN ws : ws[k].dead

\* the test of "for len(p.waiters) > 0" fails
NoWaiters(ws) == Len(ws) = 0

\* Enqueue without its quit check.
EnqueueSeesClosed_never == FALSE

\* select { case <-p.quit: return ErrClosed; default: } at the top of Enqueue
EnqueueSeesClosed == quit

\* Lock, the quit and length checks, and, with no waiter enrolled, the append.
Enqueue ==
    /\ mu = "free"
    /\ nextId <= MaxItems
    /\ nextId' = nextId + 1
    /\ IF EnqueueSeesClosed
       THEN /\ result' = [result EXCEPT ![nextId] = "ErrClosed"]
            /\ UNCHANGED <<mu, queue, enqItem>>
       ELSE IF IsFull(queue)
       THEN /\ result' = [result EXCEPT ![nextId] = "ErrFull"]
            /\ UNCHANGED <<mu, queue, enqItem>>
       ELSE IF NoWaiters(waiters)
       THEN /\ queue' = push(queue, nextId)
            /\ result' = [result EXCEPT ![nextId] = "nil"]
            /\ UNCHANGED <<mu, enqItem>>
       ELSE /\ mu' = "Enqueue"
            /\ enqItem' = nextId
            /\ UNCHANGED <<queue, result>>
    /\ UNCHANGED <<cfgVars, devVars, pollerVars, quit, quitCloses, wg, waiters, ctrl, writer,
                   workerVars, ci, pauseCalls, ghostVars>>

\* The goroutine that enrolled waiter w is blocked in poll's select.
Parked(w) == IF w.who = Playback THEN wpc = "wait" ELSE ppc[w.who] = "wait"

\* A waiter channel with a buffer: the send needs no receiver.
InputReady_buffered(w) == TRUE

\* case w.input <- item: input is unbuffered, so the send proceeds only while
\* the waiter's poll is in its select; a poll that left it has closed dead.
InputReady(w) == ~w.dead /\ Parked(w)

\* The cases of the hand-off select that can proceed for the popped waiter w.
HandoffReady(w) ==
    (IF quit THEN {"quit"} ELSE {})
    \cup (IF InputReady(w) THEN {"input"} ELSE {})
    \cup (IF w.dead THEN {"dead"} ELSE {})

\* Enqueue serving the waiter that enrolled last.
firstWaiter_last(ws) == ws[Len(ws)]

\* w := p.waiters[0]
firstWaiter(ws) == Head(ws)

\* One iteration of "for len(p.waiters) > 0": pop the head waiter and select;
\* when the loop runs out of waiters the item is appended.
EnqueueHandoff ==
    /\ mu = "Enqueue"
    /\ waiters # <<>>
    /\ LET w == firstWaiter(waiters) IN
       \E c \in HandoffReady(w) :
         /\ waiters' = Tail(waiters)
         /\ CASE c = "quit" ->
                   /\ result' = [result EXCEPT ![enqItem] = "ErrClosed"]
                   /\ mu' = "free"
                   /\ enqItem' = NoItem
                   /\ UNCHANGED <<queue, wpc, song, pollTimeout, ppc, pgot, ptimeout>>
              [] c = "input" ->
                   /\ result' = [result EXCEPT ![enqItem] = "nil"]
                   /\ mu' = "free"
                   /\ enqItem' = NoItem
                   /\ IF w.who = Playback
                      THEN /\ song' = enqItem
                           /\ wpc' = "open"
                           /\ pollTimeout' = cfgIdleTimeout
                           /\ UNCHANGED <<ppc, pgot, ptimeout>>
                      ELSE /\ ppc' = [ppc EXCEPT ![w.who] = "item"]
                           /\ pgot' = [pgot EXCEPT ![w.who] = enqItem]
                           /\ ptimeout' = [ptimeout EXCEPT ![w.who] = 0]
                           /\ UNCHANGED <<wpc, song, pollTimeout>>
                   /\ UNCHANGED queue
              [] c = "dead" ->
                   /\ IF Tail(waiters) = <<>>
                      THEN /\ queue' = push(queue, enqItem)
                           /\ result' = [result EXCEPT ![enqItem] = "nil"]
                           /\ mu' = "free"
                           /\ enqItem' = NoItem
                      ELSE UNCHANGED <<queue, result, mu, enqItem>>
                   /\ UNCHANGED <<wpc, song, pollTimeout, ppc, pgot, ptimeout>>
    /\ UNCHANGED <<cfgVars, devVars, enrolled, quit, quitCloses, wg, ctrl,
                   writer, nWrites, ready, perr, idleCalls,
                   nextId, ci, pauseCalls, ghostVars>>

\* -------------------------------------------------------------- Playlist
\* An item's title; the items of the model are told apart by it.
title(i) == i

\* Playlist under the read lock: the titles of p.queue, in order.
Playlist(q) == [k \in 1..Len(q) |-> title(q[k])]

\* ----------------------------------------------------------------- clear
\* clear that leaves the queue as it was.
Cleared_kept(q) == q

\* p.queue = nil
Cleared(q) == <<>>

\* One iteration of "for _, s := range p.queue { s.onEnd(0, reason) }"; after
\* the last one, p.queue = nil and clear returns with the mutex passing to
\* "then".
clearOnEnd(reason, by, then) ==
    /\ ci <= Len(queue)
    /\ hist' = Call(queue[ci], "end", 0, reason, by)
    /\ IF ci = Len(queue)
       THEN /\ queue' = Cleared(queue)
            /\ ci' = 1
            /\ mu' = then
       ELSE /\ ci' = ci + 1
            /\ UNCHANGED <<queue, mu>>

\* ----------------------------------------------------------------- Clear
\* Lock; with nothing queued, clear and the deferred Unlock follow at once.
ClearLock ==
    /\ mu = "free"
    /\ IF Len(queue) = 0
       THEN /\ queue' = Cleared(queue)
            /\ UNCHANGED mu
       ELSE /\ mu' = "Clear"
            /\ UNCHANGED queue
    /\ UNCHANGED <<cfgVars, devVars, pollerVars, quit, quitCloses, wg, waiters, ctrl, writer,
                   workerVars, clientVars, ghostVars>>

\* A Clear that ends the queued items with no error.
ClearReason_nil == "nil"

\* p.clear(ErrCleared)
ClearReason == "ErrCleared"

\* One iteration of clear's loop under Clear's lock; the deferred Unlock
\* follows the last one.
ClearOnEnd ==
    /\ mu = "Clear"
    /\ clearOnEnd(ClearReason, "Clear", "free")
    /\ UNCHANGED <<cfgVars, devVars, pollerVars, quit, quitCloses, wg, waiters, ctrl, writer,
                   workerVars, nextId, result, enqItem, pauseCalls,
                   watch, sentFor, closeSnap, closeSong, closeEnded, closeNil, closeErr>>

\* ------------------------------------------------------------ Skip, Pause
\* A send that replaces the pending signal when the mailbox is full.
TrySend_overwrite(ch, c) == <<c>>

\* select { case p.ctrl <- c: default: }
TrySend(ch, c) == IF Len(ch) < CtrlCap THEN Append(ch, c) ELSE ch

\* The worker's positions from play's drain to the exit of its frame loop.
PumpStates == {"inStart", "inStartPaused", "loop", "inPause", "inResume", "inProgress"}

\* The item whose frame loop is running, if any.
Pumping == IF wpc \in PumpStates THEN song ELSE NoItem

\* History of a send: a signal that entered the mailbox is marked with the
\* item whose frame loop was running then.
MarkSent == sentFor' = IF ctrl' = ctrl THEN sentFor ELSE Pumping

\* History of a receive or a drain: the mark goes with the signal.
MarkTaken == sentFor' = IF Len(ctrl') = 0 THEN NoItem ELSE sentFor

\* History of a step of the frame loop: the mark goes when the loop ends.
MarkLoop == sentFor' = IF wpc' \in PumpStates THEN sentFor ELSE NoItem

OtherGhosts == <<watch, hist, closeSnap, closeSong, closeEnded, closeNil, closeErr>>

Skip ==
    /\ ctrl' = TrySend(ctrl, "skip")
    /\ MarkSent
    /\ UNCHANGED <<cfgVars, devVars, pollerVars, quit, quitCloses, wg, mu, queue, waiters, writer,
                   workerVars, clientVars, OtherGhosts>>

\* A caller that makes at most n calls of Pause.
PauseUpTo(n) ==
    /\ pauseCalls < n
    /\ pauseCalls' = pauseCalls + 1
    /\ ctrl' = TrySend(ctrl, "pause")
    /\ MarkSent
    /\ UNCHANGED <<cfgVars, devVars, pollerVars, quit, quitCloses, wg, mu, queue, waiters, writer,
                   workerVars, nextId, result, enqItem, ci, OtherGhosts>>

Pause == PauseUpTo(MaxPause)

\* ----------------------------------------------------------------- Close
\* Close without its quit check.
CloseSeesClosed_never == FALSE

\* select { case <-p.quit: return ErrClosed; default: } at the top of Close
CloseSeesClosed == quit

\* Close without p.wg.Wait().
WaitReturns_atOnce == TRUE

\* p.wg.Wait() returns
WaitReturns == wg = 0

\* Close clearing with Clear's reason.
CloseReason_cleared == "ErrCleared"

\* the reason Close passes to clear
CloseReason == "ErrClosed"

\* Lock, the quit check and close(p.quit); with nothing queued, clear
\* returns at once.
Close ==
    /\ mu = "free"
    /\ IF CloseSeesClosed
       THEN /\ closeErr' = TRUE
            /\ UNCHANGED <<quit, quitCloses, mu, queue, closeSnap, closeSong>>
       ELSE /\ quit' = TRUE
            /\ quitCloses' = quitCloses + 1
            /\ closeSnap' = queue
            /\ closeSong' = IF wpc = "loop" THEN song ELSE NoItem
            /\ IF Len(queue) = 0
               THEN /\ queue' = Cleared(queue)
                    /\ mu' = "CloseWait"
               ELSE /\ mu' = "Close"
                    /\ UNCHANGED queue
            /\ UNCHANGED closeErr
    /\ UNCHANGED <<cfgVars, devVars, pollerVars, wg, waiters, ctrl, writer, workerVars,
                   clientVars, watch, hist, sentFor, closeEnded, closeNil>>

CloseOnEnd ==
    /\ mu = "Close"
    /\ clearOnEnd(CloseReason, "Close", "CloseWait")
    /\ closeEnded' = Append(closeEnded, queue[ci])
    /\ UNCHANGED <<cfgVars, devVars, pollerVars, quit, quitCloses, wg, waiters, ctrl, writer,
                   workerVars, nextId, result, enqItem, pauseCalls,
                   watch, sentFor, closeSnap, closeSong, closeNil, closeErr>>

\* p.wg.Wait() with the mutex held, then the deferred Unlock and return nil.
CloseReturn ==
    /\ mu = "CloseWait"
    /\ WaitReturns
    /\ mu' = "free"
    /\ closeNil' = closeNil + 1
    /\ UNCHANGED <<cfgVars, devVars, pollerVars, quit, quitCloses, wg, queue, waiters, ctrl, writer,
                   workerVars, clientVars, watch, hist, sentFor, closeSnap,
                   closeSong, closeEnded, closeErr>>

\* -------------------------------------------------------------- playback
\* player.wg.Add(1) and the initial pollTimeout, in the goroutine New started.
playbackStart ==
    /\ wpc = "start"
    /\ wg' = wg + 1
    /\ pollTimeout' = cfgIdleTimeout
    /\ wpc' = "poll"
    /\ UNCHANGED <<cfgVars, devVars, pollerVars, quit, quitCloses, mu, queue, waiters, ctrl, writer,
                   song, nWrites, ready, perr, idleCalls, clientVars, ghostVars>>

\* ------------------------------------------------------------------ poll
\* A poll that takes its waiter out of the list when it gives up.
MarkDead_removes(ws, who) ==
    LET Others(w) == w.who # who \/ w.dead IN SelectSeq(ws, Others)

\* A poll that gives up without closing its dead channel.
MarkDead_none(ws, who) == ws

\* close(me.dead): the waiter that caller who enrolled and still awaits
MarkDead(ws, who) ==
    [k \in 1..Len(ws) |->
        IF ws[k].who = who /\ ~ws[k].dead
        THEN [ws[k] EXCEPT !.dead = TRUE] ELSE ws[k]]

\* poll returning the head of the queue without removing it.
pop_peek(q) == q

\* p.queue = p.queue[1:]
pop(q) == Tail(q)

\* poll without its quit check.
pollSeesClosed_never == FALSE

\* select { case <-p.quit: return nil, ErrClosed; default: } at the top of poll
pollSeesClosed == quit

\* select { case <-p.quit: return nil, ErrClosed; default: } before the Lock
pollQuitCheck ==
    /\ wpc = "poll"
    /\ wpc' = IF pollSeesClosed THEN "exit" ELSE "lock"
    /\ UNCHANGED <<cfgVars, devVars, pollerVars, playerVars, song, pollTimeout, nWrites, ready, perr,
                   idleCalls, clientVars, ghostVars>>

\* Lock; pop the head of the queue, or enroll as a waiter; Unlock.
pollLock ==
    /\ wpc = "lock"
    /\ mu = "free"
    /\ IF Len(queue) > 0
       THEN /\ song' = Head(queue)
            /\ queue' = pop(queue)
            /\ pollTimeout' = cfgIdleTimeout
            /\ wpc' = "open"
            /\ UNCHANGED waiters
       ELSE /\ waiters' = Append(waiters, [who |-> Playback, dead |-> FALSE])
            /\ wpc' = "wait"
            /\ UNCHANGED <<song, queue, pollTimeout>>
    /\ UNCHANGED <<cfgVars, devVars, pollerVars, quit, quitCloses, wg, mu, ctrl, writer,
                   nWrites, ready, perr, idleCalls, clientVars, ghostVars>>

\* case <-p.quit of the waiter's select
pollQuit ==
    /\ wpc = "wait"
    /\ quit
    /\ waiters' = MarkDead(waiters, Playback)
    /\ wpc' = "exit"
    /\ UNCHANGED <<cfgVars, devVars, pollerVars, quit, quitCloses, wg, mu, queue, ctrl, writer,
                   song, pollTimeout, nWrites, ready, perr, idleCalls,
                   clientVars, ghostVars>>

\* A timeout branch that leaves pollTimeout as it was.
afterTimeout_kept(t) == t

\* pollTimeout = 0 in playback's errPollTimeout branch
afterTimeout(t) == 0

\* A timeout branch that does not call cfg.Idle.
Idle_skipped(n) == n

\* player.cfg.Idle(), counted
Idle(n) == n + 1

\* case <-deadline of the waiter's select, then playback's errPollTimeout
\* branch: pollTimeout = 0, cfg.Idle(), continue.
pollDeadline ==
    /\ wpc = "wait"
    /\ pollTimeout > 0
    /\ waiters' = MarkDead(waiters, Playback)
    /\ pollTimeout' = afterTimeout(pollTimeout)
    /\ idleCalls' = Idle(idleCalls)
    /\ wpc' = "poll"
    /\ UNCHANGED <<cfgVars, devVars, pollerVars, quit, quitCloses, wg, mu, queue, ctrl, writer,
                   song, nWrites, ready, perr, clientVars, ghostVars>>

\* poll returned ErrClosed: close the writer, wg.Done, return.
playbackExit ==
    /\ wpc = "exit"
    /\ writer' = IF writer # "nil" THEN "closed" ELSE writer
    /\ wg' = wg - 1
    /\ wpc' = "done"
    /\ UNCHANGED <<cfgVars, devVars, pollerVars, quit, quitCloses, mu, queue, waiters, ctrl,
                   song, pollTimeout, nWrites, ready, perr, idleCalls,
                   clientVars, ghostVars>>

\* ----------------------------------------------------------- openAndPlay
\* openAndPlay going on to open the source after device.Open failed.
sinkFailed_goesOn == "openSrc"

\* if err != nil { err = errors.Wrap(...); return } after device.Open
sinkFailed == "end"

\* player.wg.Add(1); writer, err = device.Open(song.channelID)
openSink ==
    /\ wpc = "open"
    /\ wg' = wg + 1
    /\ nWrites' = 0
    /\ \E ok \in BOOLEAN :
         IF ok
         THEN /\ writer' = "open"
              /\ wpc' = "openSrc"
              /\ perr' = "nil"
         ELSE /\ perr' = "ErrOpenSink"
              /\ wpc' = sinkFailed
              /\ UNCHANGED writer
    /\ UNCHANGED <<cfgVars, devVars, pollerVars, quit, quitCloses, mu, queue, waiters, ctrl,
                   song, pollTimeout, ready, idleCalls, clientVars, ghostVars>>

\* rc, err := song.open()
openSource ==
    /\ wpc = "openSrc"
    /\ \E ok \in BOOLEAN :
         IF ok
         THEN /\ wpc' = "play"
              /\ UNCHANGED perr
         ELSE /\ perr' = "ErrOpenSource"
              /\ wpc' = "end"
    /\ UNCHANGED <<cfgVars, devVars, pollerVars, playerVars, song, pollTimeout, nWrites, ready,
                   idleCalls, clientVars, ghostVars>>

\* ------------------------------------------------------------------ play
\* A play that starts without emptying the mailbox.
drain_none(ch) == ch

\* drain(player.ctrl)
drain(ch) == <<>>

\* A window of at least one frame for every positive progress interval.
writeInterval_atLeastOne ==
    IF progressInterval > 0
    THEN (IF progressInterval < FrameDur THEN 1 ELSE progressInterval \div FrameDur)
    ELSE 0

\* writeInterval = int(cb.progressInterval / frameDur) when progressInterval > 0
writeInterval == IF progressInterval > 0 THEN progressInterval \div FrameDur ELSE 0

InCallback == {"inStart", "inStartPaused", "inPause", "inResume", "inProgress", "inEnd"}

\* the onStart in progress is one that calls p.Pause() and has not yet
CallsPause == wpc = "inStart" /\ startPauses /\ song = watch

\* The head of play up to the call of cb.onStart.
playStart ==
    /\ wpc = "play"
    /\ nWrites' = 0
    /\ ctrl' = drain(ctrl)
    /\ MarkTaken
    /\ ready' = TRUE
    /\ hist' = Call(song, "start", 0, "nil", "playback")
    /\ wpc' = "inStart"
    /\ UNCHANGED <<cfgVars, devVars, pollerVars, quit, quitCloses, wg, mu, queue, waiters, writer,
                   song, pollTimeout, perr, idleCalls, clientVars,
                   watch, closeSnap, closeSong, closeEnded, closeNil, closeErr>>

\* p.Pause() called from within the watched item's onStart callback.
onStartPause ==
    /\ CallsPause
    /\ ctrl' = TrySend(ctrl, "pause")
    /\ MarkSent
    /\ wpc' = "inStartPaused"
    /\ UNCHANGED <<cfgVars, devVars, pollerVars, quit, quitCloses, wg, mu, queue, waiters,
                   writer, song, pollTimeout, nWrites, ready, perr, idleCalls,
                   clientVars, OtherGhosts>>

\* onStart, onPause, onResume or onProgress returns into the frame loop.
callbackReturn ==
    /\ wpc \in InCallback \ {"inEnd"}
    /\ ~CallsPause
    /\ wpc' = "loop"
    /\ UNCHANGED <<cfgVars, devVars, pollerVars, playerVars, song, pollTimeout, nWrites, ready, perr,
                   idleCalls, clientVars, ghostVars>>

\* case <-player.quit
playQuit ==
    /\ wpc = "loop"
    /\ quit
    /\ perr' = "ErrClosed"
    /\ wpc' = "end"
    /\ MarkLoop
    /\ UNCHANGED <<cfgVars, devVars, pollerVars, playerVars, song, pollTimeout, nWrites, ready,
                   idleCalls, clientVars, OtherGhosts>>

\* case skip returning without setting err.
skipErr_nil == "nil"

\* case skip: err = ErrSkipped
skipErr == "ErrSkipped"

\* A pause that tests nothing and always pauses.
IsPlaying_always == TRUE

\* case pause: if ready != nil
IsPlaying == ready

\* A pause that leaves the ticker channel in place.
readyNil_ticker == TRUE

\* ready = nil
readyNil == FALSE

\* case c := <-player.ctrl
playCtrl ==
    /\ wpc = "loop"
    /\ Len(ctrl) > 0
    /\ ctrl' = Tail(ctrl)
    /\ MarkTaken
    /\ IF Head(ctrl) = "skip"
       THEN /\ perr' = skipErr
            /\ wpc' = "end"
            /\ UNCHANGED <<ready, hist>>
       ELSE IF IsPlaying
       THEN /\ hist' = Call(song, "pause", elapsed, "nil", "playback")
            /\ ready' = readyNil
            /\ wpc' = "inPause"
            /\ UNCHANGED perr
       ELSE /\ hist' = Call(song, "resume", elapsed, "nil", "playback")
            /\ ready' = TRUE
            /\ wpc' = "inResume"
            /\ UNCHANGED perr
    /\ UNCHANGED <<cfgVars, devVars, pollerVars, quit, quitCloses, wg, mu, queue, waiters, writer,
                   song, pollTimeout, nWrites, idleCalls, clientVars,
                   watch, closeSnap, closeSong, closeEnded, closeNil, closeErr>>

\* A read failure (end of stream included) returned as no error.
readFailed_nil == "nil"

\* err = errors.Wrap(err, "failed to read frame")
readFailed == "ErrRead"

\* case <-ready: read a frame, write it, count it, report progress.
playFrame ==
    /\ wpc = "loop"
    /\ ready
    /\ \E outcome \in {"readErr", "writeErr", "written"} :
         CASE outcome = "readErr" ->
                /\ perr' = readFailed
                /\ wpc' = "end"
                /\ UNCHANGED <<nWrites, hist>>
           [] outcome = "writeErr" ->
                /\ nWrites < srcFrames
                /\ perr' = "ErrWrite"
                /\ wpc' = "end"
                /\ UNCHANGED <<nWrites, hist>>
           [] outcome = "written" ->
                /\ nWrites < srcFrames
                /\ nWrites' = nWrites + 1
                /\ IF writeInterval > 0 /\ (nWrites + 1) % writeInterval = 0
                   THEN /\ hist' = Call(song, "progress", (nWrites + 1) * FrameDur,
                                        "nil", "playback")
                        /\ wpc' = "inProgress"
                   ELSE UNCHANGED <<hist, wpc>>
                /\ UNCHANGED perr
    /\ MarkLoop
    /\ UNCHANGED <<cfgVars, devVars, pollerVars, playerVars, song, pollTimeout, ready, idleCalls,
                   clientVars, watch, closeSnap, closeSong, closeEnded, closeNil, closeErr>>

\* A worker that starts onEnd and polls for the next item without waiting
\* for it to return.
onEndCalled_async == "poll"

\* song.onEnd(elapsed, err) runs in the playback goroutine, which goes on
\* when it has returned
onEndCalled == "inEnd"

\* song.onEnd(elapsed, err)
onEndCall ==
    /\ wpc = "end"
    /\ hist' = Call(song, "end", elapsed, perr, "playback")
    /\ wpc' = onEndCalled
    /\ UNCHANGED <<cfgVars, devVars, pollerVars, playerVars, song, pollTimeout, nWrites, ready, perr,
                   idleCalls, clientVars, watch, sentFor, closeSnap, closeSong, closeEnded, closeNil, closeErr>>

\* Errors of the sink and the source, as opposed to ErrSkipped and ErrClosed.
TransportErrs == {"ErrOpenSink", "ErrOpenSource", "ErrRead", "ErrWrite"}

\* A worker that returns when an item ended with a transport error.
afterItem_stopsOnFault(err) == IF err \in TransportErrs THEN "done" ELSE "poll"

\* playback's for loop: after wg.Done the next iteration polls again,
\* whatever err was.
afterItem(err) == "poll"

\* onEnd returns; player.wg.Done(); next iteration of playback's loop.
onEndReturn ==
    /\ wpc = "inEnd"
    /\ wg' = wg - 1
    /\ song' = NoItem
    /\ nWrites' = 0
    /\ ready' = TRUE
    /\ perr' = "nil"
    /\ wpc' = afterItem(perr)
    /\ UNCHANGED <<cfgVars, devVars, pollerVars, quit, quitCloses, mu, queue, waiters, ctrl, writer,
                   pollTimeout, idleCalls, clientVars, ghostVars>>

\* ------------------------------------------------- other callers of poll
PollTimeouts == {0, 1}

\* A goroutine calls p.poll(t): the quit check before the Lock.
pollerCall(p) ==
    /\ ppc[p] = "idle"
    /\ IF pollSeesClosed
       THEN /\ ppc' = [ppc EXCEPT ![p] = "ErrClosed"]
            /\ UNCHANGED ptimeout
       ELSE /\ ppc' = [ppc EXCEPT ![p] = "lock"]
            /\ \E t \in PollTimeouts : ptimeout' = [ptimeout EXCEPT ![p] = t]
    /\ UNCHANGED <<cfgVars, devVars, playerVars, workerVars, clientVars, ghostVars,
                   pgot, enrolled>>

\* Lock; pop the head of the queue and return it, or enroll as a waiter;
\* Unlock.
pollerLock(p) ==
    /\ ppc[p] = "lock"
    /\ mu = "free"
    /\ IF Len(queue) > 0
       THEN /\ pgot' = [pgot EXCEPT ![p] = Head(queue)]
            /\ queue' = pop(queue)
            /\ ppc' = [ppc EXCEPT ![p] = "item"]
            /\ ptimeout' = [ptimeout EXCEPT ![p] = 0]
            /\ UNCHANGED <<waiters, enrolled>>
       ELSE /\ waiters' = Append(waiters, [who |-> p, dead |-> FALSE])
            /\ enrolled' = Append(enrolled, p)
            /\ ppc' = [ppc EXCEPT ![p] = "wait"]
            /\ UNCHANGED <<queue, pgot, ptimeout>>
    /\ UNCHANGED <<cfgVars, devVars, quit, quitCloses, wg, mu, ctrl, writer,
                   workerVars, clientVars, ghostVars>>

\* case <-p.quit of the waiter's select: close(me.dead), return ErrClosed
pollerQuit(p) ==
    /\ ppc[p] = "wait"
    /\ quit
    /\ waiters' = MarkDead(waiters, p)
    /\ ppc' = [ppc EXCEPT ![p] = "ErrClosed"]
    /\ ptimeout' = [ptimeout EXCEPT ![p] = 0]
    /\ UNCHANGED <<cfgVars, devVars, quit, quitCloses, wg, mu, queue, ctrl, writer,
                   workerVars, clientVars, ghostVars, pgot, enrolled>>

\* case <-deadline of the waiter's select: close(me.dead), return
\* errPollTimeout
pollerDeadline(p) ==
    /\ ppc[p] = "wait"
    /\ ptimeout[p] > 0
    /\ waiters' = MarkDead(waiters, p)
    /\ ppc' = [ppc EXCEPT ![p] = "errPollTimeout"]
    /\ ptimeout' = [ptimeout EXCEPT ![p] = 0]
    /\ UNCHANGED <<cfgVars, devVars, quit, quitCloses, wg, mu, queue, ctrl, writer,
                   workerVars, clientVars, ghostVars, pgot, enrolled>>

\* ------------------------------------------------------------------ Next
ClientNext ==
    \/ Enqueue \/ EnqueueHandoff
    \/ ClearLock \/ ClearOnEnd
    \/ Skip \/ Pause

CloseNext == Close \/ CloseOnEnd \/ CloseReturn

WorkerNext ==
    \/ playbackStart \/ pollQuitCheck \/ pollLock \/ pollQuit \/ pollDeadline
    \/ playbackExit \/ openSink \/ openSource \/ playStart \/ callbackReturn
    \/ playQuit \/ playCtrl \/ playFrame \/ onEndCall \/ onEndReturn

Next == ClientNext \/ CloseNext \/ WorkerNext

Spec == Init /\ [][Next]_vars

\* The Go scheduler runs every goroutine that can take a step: the playback
\* goroutine and a Close call in progress are not starved.
FairSpec == Spec /\ WF_vars(WorkerNext) /\ WF_vars(CloseNext)

\* The same scheduler with callers that are free never to call Close: a
\* call of Close, Clear or Enqueue that has taken the mutex goes on, and so
\* does the playback goroutine.
FairRunSpec ==
    /\ Spec
    /\ WF_vars(WorkerNext)
    /\ WF_vars(CloseOnEnd \/ CloseReturn)
    /\ WF_vars(ClearOnEnd)
    /\ WF_vars(EnqueueHandoff)

\* The player with further goroutines calling poll beside the playback
\* goroutine, and no caller of Skip or Pause.
PollerNext ==
    \E p \in Pollers :
        pollerCall(p) \/ pollerLock(p) \/ pollerQuit(p) \/ pollerDeadline(p)

PollNext ==
    \/ Enqueue \/ EnqueueHandoff
    \/ ClearLock \/ ClearOnEnd
    \/ CloseNext
    \/ PollerNext
    \/ playbackStart \/ pollQuitCheck \/ pollLock \/ pollQuit \/ pollDeadline
    \/ playbackExit \/ openSink \/ openSource \/ playStart \/ callbackReturn
    \/ playQuit \/ playFrame \/ onEndCall \/ onEndReturn

InitPoll == Init /\ progressInterval = 0

SpecPoll == InitPoll /\ [][PollNext]_vars

\* The player with an item whose onStart pauses it, callers of Pause and Skip,
\* and no caller of Clear.
InitCtl == New /\ ShortSources /\ cfgQueueLength = 0 /\ deferAtLock

CtlNext ==
    \/ Enqueue \/ EnqueueHandoff
    \/ Skip \/ PauseUpTo(MaxCtlPause)
    \/ CloseNext
    \/ WorkerNext \/ onStartPause

SpecCtl == InitCtl /\ [][CtlNext]_vars

\* The player with longer sources, every kind of progress interval and an
\* unbounded queue, never closed, with no caller of Skip, Pause or Clear.
InitOpt ==
    /\ New
    /\ ~startPauses
    /\ srcFrames = MaxOptFrames
    /\ cfgQueueLength < 1
    /\ cfgIdleTimeout = 0
    /\ deferAtLock

OptNext ==
    \/ Enqueue \/ EnqueueHandoff
    \/ playbackStart \/ pollQuitCheck \/ pollLock
    \/ openSink \/ openSource \/ playStart \/ callbackReturn
    \/ playFrame \/ onEndCall \/ onEndReturn

SpecOpt == InitOpt /\ [][OptNext]_vars

\* ------------------------------------------------ discordvoice.Device.Open
\* Open is called: if !ValidVoiceChannel(...) return nil, ErrInvalidVoiceChannel
deviceOpen ==
    /\ dpc = "idle"
    /\ dcalls < MaxOpens
    /\ dcalls' = dcalls + 1
    /\ \E ch \in Channels, valid \in BOOLEAN :
         IF valid
         THEN /\ dpc' = "lock"
              /\ dch' = ch
              /\ dres' = "none"
         ELSE /\ dres' = "ErrInvalidVoiceChannel"
              /\ UNCHANGED <<dpc, dch>>
    /\ UNCHANGED <<cfgVars, playerVars, workerVars, clientVars, ghostVars, pollerVars,
                   deferAtLock, dmu, dwriter, dready>>

\* The writer d.writer cannot be recycled for channel ch.
\* writer.go: d.writer == nil || d.writer.channelID != channelID || !d.writer.Ready()
\* part_007: the writer of another channel is closed and set to nil; d.writer == nil
NeedsJoin(ch) ==
    IF deferAtLock
    THEN dwriter = NoChannel \/ dwriter # ch \/ ~dready
    ELSE dwriter = NoChannel \/ dwriter # ch

\* d.mu.Lock(), and the test of the writer at hand
deviceLock ==
    /\ dpc = "lock"
    /\ ~dmu
    /\ dmu' = TRUE
    /\ IF NeedsJoin(dch)
       THEN /\ dpc' = "join"
            /\ dwriter' = IF deferAtLock THEN dwriter ELSE NoChannel
       ELSE /\ dpc' = "speak"
            /\ UNCHANGED dwriter
    /\ UNCHANGED <<cfgVars, playerVars, workerVars, clientVars, ghostVars, pollerVars,
                   deferAtLock, dready, dch, dres, dcalls>>

\* Device.mu after the return on a failed join: writer.go has deferred the
\* Unlock before the join, part_007 defers it only after.
JoinFailedMu == IF deferAtLock THEN FALSE ELSE dmu

\* vconn, err := d.discord.ChannelVoiceJoin(...)
deviceJoin ==
    /\ dpc = "join"
    /\ \E ok \in BOOLEAN :
         IF ok
         THEN /\ dwriter' = dch
              /\ dready' = TRUE
              /\ dpc' = "speak"
              /\ UNCHANGED <<dmu, dres>>
         ELSE /\ dwriter' = NoChannel
              /\ dres' = "ErrJoin"
              /\ dpc' = "idle"
              /\ dmu' = JoinFailedMu
              /\ UNCHANGED dready
    /\ UNCHANGED <<cfgVars, playerVars, workerVars, clientVars, ghostVars, pollerVars,
                   deferAtLock, dch, dcalls>>

\* d.writer.vconn.Speaking(true); return d.writer, nil; the deferred Unlock
deviceSpeak ==
    /\ dpc = "speak"
    /\ dres' = "writer"
    /\ dpc' = "idle"
    /\ dmu' = FALSE
    /\ UNCHANGED <<cfgVars, playerVars, workerVars, clientVars, ghostVars, pollerVars,
                   deferAtLock, dwriter, dready, dch, dcalls>>

\* The voice connection of the writer drops or moves to another channel:
\* Writer.Ready() turns false.
vconnDrop ==
    /\ dwriter # NoChannel
    /\ dready
    /\ dready' = FALSE
    /\ UNCHANGED <<cfgVars, playerVars, workerVars, clientVars, ghostVars, pollerVars,
                   deferAtLock, dmu, dwriter, dpc, dch, dres, dcalls>>

DevNext == deviceOpen \/ deviceLock \/ deviceJoin \/ deviceSpeak \/ vconnDrop

\* A Device on its own, with either text of Open, called again and again by
\* one goroutine, as the playback goroutine does.
InitDev ==
    /\ New
    /\ ShortSources
    /\ ~startPauses
    /\ cfgQueueLength = 0
    /\ cfgIdleTimeout = 0
    /\ progressInterval = 0
    /\ watch = 1

SpecDev == InitDev /\ [][DevNext]_vars

\* ---------------------------------------------------------------- claims
Range(q) == {q[k] : k \in 1..Len(q)}

IsEnd(e) == e.cb = "end"

\* the onEnd invocations on the watched item
Ends == SelectSeq(hist, IsEnd)

\* the watched item's Enqueue returned nil
Accepted == result[watch] = "nil"

\* the watched item is queued or with the playback goroutine
Held == watch \in Range(queue) \/ song = watch

\* C1: onEnd of an item is never invoked twice, whoever invokes it (the
\* scheduler, Clear or Close); an accepted item whose onEnd has not been
\* invoked is still queued or with the scheduler; and once Close has returned
\* nil every accepted item has had its onEnd invoked exactly once.
C1_OnEndExactlyOnce ==
    /\ Len(Ends) <= 1
    /\ (Accepted /\ Len(Ends) = 0 => Held)
    /\ (Accepted /\ closeNil > 0 => Len(Ends) = 1)

\* Close returned after the scheduler ended the item it was playing.
C1_Witness ==
    /\ closeNil = 1
    /\ Accepted
    /\ Len(Ends) = 1
    /\ Ends[1].by = "playback"
    /\ Ends[1].err = "ErrClosed"

\* C2: every call to Close eventually returns: once Close has taken the mutex
\* and closed quit, it returns nil, wherever the scheduler worker is.
C2_CloseReturns == quit ~> (closeNil > 0)

\* C3: when Close has returned nil no lifecycle callback is in progress and
\* none begins afterwards: the worker is in no callback and neither Clear nor
\* Close is in its onEnd loop.
C3_CloseSynchronous ==
    closeNil > 0 => wpc \notin InCallback /\ mu \notin {"Clear", "Close"}

\* Close returned after the worker paused and then ended the watched item.
C3_Witness ==
    /\ closeNil = 1
    /\ wpc = "done"
    /\ Len(hist) = 3
    /\ hist[2].cb = "pause"
    /\ hist[3].cb = "end"

\* C4: when Close returns the scheduler worker has exited, also when Close is
\* called before the worker registered with the wait group.
C4_WorkerExited == closeNil > 0 => wpc = "done"

\* C5: Close empties the queue and invokes onEnd(0, ErrClosed) once for each
\* item that was queued, in queue order, before it waits and returns.
C5_CloseDrainsQueue ==
    /\ (mu = "Close" => queue = closeSnap /\ closeEnded = SubSeq(closeSnap, 1, ci - 1))
    /\ (mu = "CloseWait" \/ closeNil > 0 => queue = <<>> /\ closeEnded = closeSnap)
    /\ (watch \in Range(closeEnded) => hist = <<Ev("end", 0, "ErrClosed", "Close")>>)

\* Close returned after ending two queued items, the watched one second.
C5_Witness ==
    /\ closeNil = 1
    /\ Len(closeSnap) = 2
    /\ watch = closeSnap[2]
    /\ Len(hist) = 1

\* C6: an item that was in its frame loop, playing or paused, when Close
\* closed quit has its onEnd invoked with ErrClosed.
C6_ClosedInLoop ==
    closeSong = watch /\ Len(Ends) > 0 => Ends[1].err = "ErrClosed"

\* C7: the Close that closes quit is the only one that returns nil; a Close
\* that returned ErrClosed came after it; quit is closed once; and a Close
\* that finds quit closed invokes no callback and changes nothing else.
C7_CloseIdempotent ==
    /\ [](closeNil <= 1 /\ quitCloses <= 1 /\ (closeErr => quitCloses = 1))
    /\ [][closeErr' # closeErr =>
            UNCHANGED <<cfgVars, devVars, playerVars, workerVars, clientVars, hist>>]_vars

\* One Close returned nil and a later one ErrClosed.
C7_Witness == closeNil = 1 /\ closeErr

\* C8: an Enqueue on a closed player returns ErrClosed and leaves the queue
\* and the waiters as they were; the rejected item is never queued, never
\* handed to the worker, and none of its callbacks is invoked.
C8_EnqueueClosed ==
    /\ [][quit /\ nextId' # nextId =>
            /\ result'[nextId] = "ErrClosed"
            /\ UNCHANGED <<queue, waiters, mu, hist>>]_vars
    /\ [](result[watch] = "ErrClosed" => ~Held /\ hist = <<>>)

\* The watched item was rejected by a closed player that had waiters left.
C8_Witness == result[watch] = "ErrClosed" /\ waiters # <<>>

\* C9: with QueueLength = N > 0 and N items queued, Enqueue returns ErrFull and
\* leaves the queue and the waiters as they were; the rejected item is never
\* queued, never handed to the worker, and none of its callbacks is invoked.
C9_EnqueueFull ==
    /\ [][cfgQueueLength > 0 /\ Len(queue) = cfgQueueLength /\ nextId' # nextId =>
            /\ result'[nextId] = "ErrFull"
            /\ UNCHANGED <<queue, waiters, mu, hist>>]_vars
    /\ [](result[watch] = "ErrFull" => ~Held /\ hist = <<>>)

\* The watched item was rejected by a full queue.
C9_Witness == result[watch] = "ErrFull" /\ Len(queue) = cfgQueueLength

\* C10: with QueueLength > 0 the queue never holds more than QueueLength items.
C10_QueueBound == cfgQueueLength > 0 => Len(queue) <= cfgQueueLength

\* The queue is full while the worker plays another item.
C10_Witness ==
    /\ cfgQueueLength > 0
    /\ Len(queue) = cfgQueueLength
    /\ wpc = "loop"

\* the watched item is queued and clear's loop has not passed it
Queued ==
    \E k \in 1..Len(queue) :
        queue[k] = watch /\ (mu \in {"Clear", "Close"} => k >= ci)

\* the callers other than the playback goroutine whose poll returned the
\* watched item
PolledBy == {p \in Pollers : pgot[p] = watch}

\* poll returned the watched item to the playback goroutine
WorkerPolled == song = watch \/ \E k \in 1..Len(hist) : hist[k].by = "playback"

\* Clear or Close ended the watched item while it was queued
EndedQueued == \E k \in 1..Len(hist) : hist[k].cb = "end" /\ hist[k].by # "playback"

Consumptions ==
    Cardinality(PolledBy) + (IF WorkerPolled THEN 1 ELSE 0)
        + (IF EndedQueued THEN 1 ELSE 0)

\* C11: an accepted item is at every moment either still queued, once, or
\* consumed in exactly one way: returned by one poll call (handed to a waiter
\* or popped from the queue) or ended in the queue by Clear or Close; an item
\* not accepted is neither queued nor consumed.
C11_HandoffExclusive ==
    /\ Cardinality({k \in 1..Len(queue) : queue[k] = watch}) <= 1
    /\ (Accepted => Consumptions + (IF Queued THEN 1 ELSE 0) = 1)
    /\ (~Accepted => Consumptions = 0 /\ ~Queued)

\* Two callers of poll each hold an item, the watched one handed over
\* directly, and the player has been closed since.
C11_Witness ==
    /\ quit
    /\ \E p, q \in Pollers :
         /\ pgot[p] = watch
         /\ p \in Range(enrolled)
         /\ pgot[q] \notin {NoItem, watch}

\* C12: items leave the queue in the order their Enqueue calls succeeded
\* (items are numbered in that order): the queue is in that order, the item
\* poll returned to the scheduler precedes every item still queued, so does an
\* item whose onStart was invoked, and whenever Playlist can take its read lock
\* it lists exactly the accepted items not yet consumed, in that order.
C12_Fifo ==
    /\ \A j, k \in 1..Len(queue) : j < k => queue[j] < queue[k]
    /\ (song # NoItem => \A k \in 1..Len(queue) : song < queue[k])
    /\ (hist # <<>> /\ hist[1].cb = "start" => \A k \in 1..Len(queue) : watch < queue[k])
    /\ (mu = "free" =>
          (title(watch) \in Range(Playlist(queue)) <=> Accepted /\ Consumptions = 0))

\* The first item is started while Playlist lists the second.
C12_Witness ==
    /\ watch = 1
    /\ wpc = "inStart"
    /\ song = watch
    /\ mu = "free"
    /\ Playlist(queue) = <<title(2)>>

\* C13: direct hand-off serves the waiters in the order they enrolled: of two
\* callers of poll that enrolled, the later one is handed an item only when
\* the earlier one has been handed one or given up, the earlier one is handed
\* the item enqueued first, and the queue is empty while a caller waits.
C13_WaiterOrder ==
    /\ \A j, k \in 1..Len(enrolled) :
         j < k =>
           /\ (ppc[enrolled[k]] = "item" => ppc[enrolled[j]] # "wait")
           /\ (ppc[enrolled[j]] = "item" /\ ppc[enrolled[k]] = "item"
                 => pgot[enrolled[j]] < pgot[enrolled[k]])
    /\ \A p \in Pollers : ppc[p] = "wait" => queue = <<>>

\* Caller 2 enrolled before caller 1; item 1 went to caller 2 and item 2 to
\* caller 1, both enqueued on an open player.
C13_Witness ==
    /\ enrolled = <<2, 1>>
    /\ pgot = <<2, 1>>
    /\ ppc = <<"item", "item">>
    /\ ~quit

\* some enrolled waiter is still waiting: its poll is in its select
LiveWaiter == \E k \in 1..Len(waiters) : InputReady(waiters[k])

\* C14 as stated: an Enqueue that runs while a waiter still waiting is enrolled
\* returns no error and does not append the item to the queue.
C14_Handoff ==
    [][nextId' # nextId /\ LiveWaiter =>
          /\ result'[nextId] \notin {"ErrClosed", "ErrFull"}
          /\ queue' = queue]_vars

\* C14, amended: on an open player an Enqueue that runs while a waiter still
\* waiting is enrolled enters the hand-off and appends nothing; when the
\* hand-off reaches a waiter that is still waiting, Enqueue returns nil having
\* delivered the item to that waiter, and the item is not appended.
C14_HandoffOpen ==
    /\ [][~quit /\ nextId' # nextId /\ LiveWaiter =>
            /\ mu' = "Enqueue"
            /\ enqItem' = nextId
            /\ result'[nextId] = "none"
            /\ queue' = queue]_vars
    /\ [][mu = "Enqueue" /\ waiters # <<>> /\ InputReady(Head(waiters))
            /\ waiters' # waiters /\ enqItem' # enqItem =>
            /\ result'[enqItem] = "nil"
            /\ queue' = queue
            /\ IF Head(waiters).who = Playback
               THEN song' = enqItem
               ELSE pgot'[Head(waiters).who] = enqItem]_vars

\* An item was handed to caller 1, the only one that enrolled, and accepted.
C14_Witness ==
    /\ ~quit
    /\ enrolled = <<1>>
    /\ ppc[1] = "item"
    /\ result[pgot[1]] = "nil"
    /\ queue = <<>>

\* C15: a poll that returned errPollTimeout or ErrClosed returned no item and
\* is handed none afterwards; the playback goroutine is given an item only
\* inside poll; and an Enqueue whose hand-off pops a dead waiter discards it
\* without delivering, appending the item when that was the last waiter.
C15_DeadWaiterBypass ==
    /\ [][\A p \in Pollers :
            ppc[p] \in {"errPollTimeout", "ErrClosed"} =>
               /\ pgot[p] = NoItem
               /\ pgot'[p] = NoItem
               /\ ppc'[p] = ppc[p]]_vars
    /\ [][song' # song /\ song' # NoItem => wpc \in {"lock", "wait"}]_vars
    /\ [][mu = "Enqueue" /\ waiters # <<>> /\ Head(waiters).dead
            /\ Len(waiters') < Len(waiters) =>
            /\ waiters' = Tail(waiters)
            /\ song' = song
            /\ pgot' = pgot
            /\ IF Len(waiters) = 1
               THEN /\ queue' = Append(queue, enqItem)
                    /\ result'[enqItem] = "nil"
                    /\ mu' = "free"
               ELSE /\ queue' = queue
                    /\ result' = result
                    /\ mu' = mu]_vars

\* Caller 1 timed out, the next Enqueue discarded its waiter and queued the
\* item, and caller 2 then popped it.
C15_Witness ==
    /\ ppc = <<"errPollTimeout", "item">>
    /\ enrolled = <<1>>
    /\ waiters = <<>>
    /\ wpc = "start"

\* a poll that starts on a closed player returns ErrClosed
PollAfterClose ==
    /\ \A p \in Pollers :
         quit /\ ppc[p] = "idle" /\ ppc'[p] # ppc[p] => ppc'[p] = "ErrClosed"
    /\ (quit /\ wpc = "poll" /\ wpc' # wpc => wpc' = "exit")

\* no poll returns an item once Close has closed quit and emptied the queue
NoItemAfterClose ==
    quit /\ mu # "Close" =>
       /\ pgot' = pgot
       /\ (song' # song => song' = NoItem)

\* C16 as stated: a poll parked in its select on a closed player returns
\* ErrClosed, a poll that starts on a closed player returns ErrClosed, and no
\* poll returns an item after Close closed quit and emptied the queue.
C16_PollClosed ==
    [][/\ \A p \in Pollers :
            quit /\ ppc[p] = "wait" /\ ppc'[p] # ppc[p] => ppc'[p] = "ErrClosed"
       /\ (quit /\ wpc = "wait" /\ wpc' # wpc => wpc' = "exit")
       /\ PollAfterClose
       /\ NoItemAfterClose]_vars

\* C16, amended: a poll parked in its select on a closed player returns an
\* error and no item, ErrClosed or, if it was called with a timeout,
\* errPollTimeout (after which the playback goroutine polls again); a poll that
\* starts on a closed player returns ErrClosed; and no poll returns an item
\* after Close closed quit and emptied the queue.
C16_PollClosedOrTimeout ==
    [][/\ \A p \in Pollers :
            quit /\ ppc[p] = "wait" /\ ppc'[p] # ppc[p] =>
               \/ ppc'[p] = "ErrClosed"
               \/ ptimeout[p] > 0 /\ ppc'[p] = "errPollTimeout"
       /\ (quit /\ wpc = "wait" /\ wpc' # wpc =>
               \/ wpc' = "exit"
               \/ pollTimeout > 0 /\ wpc' = "poll")
       /\ PollAfterClose
       /\ NoItemAfterClose]_vars

\* Close returned; caller 1 was parked in poll when quit was closed, caller 2
\* called poll afterwards, and the playback goroutine has exited.
C16_Witness ==
    /\ closeNil = 1
    /\ ppc = <<"ErrClosed", "ErrClosed">>
    /\ enrolled = <<1>>
    /\ wpc = "done"
    /\ idleCalls = 1

\* the watched item is in its frame loop, paused, with a skip in the mailbox
\* and the player open
SkipPending ==
    /\ song = watch
    /\ wpc = "loop"
    /\ ~ready
    /\ ~quit
    /\ ctrl = <<"skip">>

\* C17: a skip that reaches the mailbox while the item is paused stays there
\* until play takes it, unless Close intervenes; play then leaves the loop
\* with ErrSkipped without reading or writing a frame, and an onEnd with
\* ErrSkipped that follows an onPause carries that onPause's elapsed.
C17_SkipPaused ==
    /\ [][SkipPending =>
            \/ quit'
            \/ UNCHANGED <<wpc, ctrl, ready, nWrites, song>>
            \/ /\ wpc' = "end"
               /\ perr' = "ErrSkipped"
               /\ ctrl' = <<>>
               /\ UNCHANGED <<nWrites, song>>]_vars
    /\ [](\A k \in 1..(Len(hist) - 1) :
            hist[k].cb = "pause" /\ hist[k + 1].cb = "end"
               /\ hist[k + 1].err = "ErrSkipped"
               => hist[k + 1].elapsed = hist[k].elapsed)

\* The item was paused after one frame and its onEnd then got ErrSkipped with
\* the elapsed time of that pause.
C17_Witness ==
    \E k \in 1..(Len(hist) - 1) :
        /\ hist[k] = Ev("pause", FrameDur, "nil", "playback")
        /\ hist[k + 1] = Ev("end", FrameDur, "ErrSkipped", "playback")

\* the onPause and onResume invocations on the watched item
IsToggle(e) == e.cb \in {"pause", "resume"}

Toggles == SelectSeq(hist, IsToggle)

\* C18: when the watched item's onStart calls Pause, the item's first onPause
\* receives elapsed = 0, and an onEnd with ErrSkipped that follows it receives
\* elapsed = 0 as well.
C18_PauseOnStart ==
    startPauses /\ Len(Toggles) > 0 =>
       /\ Toggles[1].elapsed = 0
       /\ \A k \in 1..(Len(hist) - 1) :
            hist[k] = Toggles[1] /\ hist[k + 1].cb = "end"
               /\ hist[k + 1].err = "ErrSkipped"
               => hist[k + 1].elapsed = 0

\* C19: no frame is read or written while the watched item is paused: in the
\* loop with ready = nil nWrites stands still, and the callback that follows an
\* onPause, which is an onResume or the onEnd, receives the same elapsed.
C19_PumpStopsInPause ==
    /\ (song = watch /\ wpc \in {"loop", "inPause"} /\ ~ready =>
          /\ hist # <<>>
          /\ hist[Len(hist)].cb = "pause"
          /\ hist[Len(hist)].elapsed = elapsed)
    /\ \A k \in 1..(Len(hist) - 1) :
         hist[k].cb = "pause" =>
            /\ hist[k + 1].cb \in {"resume", "end"}
            /\ hist[k + 1].elapsed = hist[k].elapsed

\* The item was paused after one frame and resumed with the same elapsed.
C19_Witness ==
    \E k \in 1..(Len(hist) - 1) :
        /\ hist[k] = Ev("pause", FrameDur, "nil", "playback")
        /\ hist[k + 1] = Ev("resume", FrameDur, "nil", "playback")

\* C20: the onPause and onResume invocations on an item alternate, starting
\* with onPause, whatever Pause and Skip calls are made or dropped.
C20_PauseResumeAlternate ==
    \A k \in 1..Len(Toggles) :
        Toggles[k].cb = IF k % 2 = 1 THEN "pause" ELSE "resume"

\* The item was paused, resumed and paused again.
C20_Witness == Len(Toggles) = 3

\* ------------------------------------------------------------ C21 .. C30
\* The positions of hist that hold an invocation of callback cb.
At(cb) == {k \in DOMAIN hist : hist[k].cb = cb}

\* C21: onStart is invoked at most once per item and, when it is invoked,
\* before every onPause, onResume, onProgress and onEnd of that item; onEnd
\* is the last callback invoked on the item.
C21_CallbackOrder ==
    /\ Cardinality(At("start")) <= 1
    /\ \A k \in DOMAIN hist :
         /\ hist[k].cb = "start" => k = 1
         /\ hist[k].cb \in {"pause", "resume", "progress"} => hist[1].cb = "start"
         /\ hist[k].cb = "end" => k = Len(hist)

\* The watched item was started, paused or reported progress, and has ended.
C21_Witness ==
    /\ Len(hist) >= 3
    /\ hist[1].cb = "start"
    /\ hist[2].cb \in {"pause", "progress"}
    /\ hist[Len(hist)].cb = "end"
    /\ wpc = "poll"

\* The errors openAndPlay returns before play is entered.
OpenErrs == {"ErrOpenSink", "ErrOpenSource"}

\* C22: when the sink or the source fails to open, the item's onEnd is
\* invoked with elapsed 0 and the open error and no other callback of the
\* item is ever invoked; an item ended while queued, by Clear or Close, never
\* has onStart invoked.
C22_OpenFailure ==
    /\ song = watch /\ perr \in OpenErrs =>
         /\ wpc \in {"end", "inEnd"}
         /\ wpc = "end" => hist = <<>>
         /\ wpc = "inEnd" => hist = <<Ev("end", 0, perr, "playback")>>
    /\ \A k \in DOMAIN hist :
         /\ hist[k].cb = "end" /\ hist[k].err \in OpenErrs =>
              hist = <<Ev("end", 0, hist[k].err, "playback")>>
         /\ hist[k].cb = "end" /\ hist[k].by \in {"Clear", "Close"} =>
              /\ At("start") = {}
              /\ Len(hist) = 1

\* The sink opened, the source of the watched item did not, and the worker
\* is back at its poll after the item's onEnd.
C22_Witness ==
    /\ hist = <<Ev("end", 0, "ErrOpenSource", "playback")>>
    /\ writer = "open"
    /\ wpc = "poll"

\* C23: the error passed to onEnd is never nil, whichever way the item ended:
\* Clear, Close, Skip, a sink or source that failed to open, a failed read
\* (the end of the stream included) or a failed write.
C23_EndErrorNotNil ==
    /\ wpc \in {"end", "inEnd"} => perr # "nil"
    /\ \A k \in DOMAIN hist : hist[k].cb = "end" => hist[k].err # "nil"

\* The watched item was started and ended by a failed read.
C23_Witness ==
    /\ Len(hist) >= 2
    /\ hist[1].cb = "start"
    /\ hist[Len(hist)].cb = "end"
    /\ hist[Len(hist)].err = "ErrRead"

\* The worker goroutine has left playback's loop.
WorkerGone == wpc \in {"exit", "done"}

\* C24: an item that ends with a transport error (sink open, source open,
\* read or write) does not stop the worker: when its onEnd returns the worker
\* polls again, a poll that finds the queue non-empty takes its head and goes
\* on to open it, and the worker leaves its loop only when the player has
\* been closed.
C24_FaultsDoNotStop ==
    [][/\ wpc = "inEnd" /\ wpc' # wpc => wpc' = "poll" /\ song' = NoItem
       /\ wpc = "lock" /\ wpc' # wpc /\ Len(queue) > 0 =>
            wpc' = "open" /\ song' = Head(queue)
       /\ WorkerGone' => quit']_vars

\* The watched item ended with a failed write and the worker has started the
\* item enqueued after it, on an open player.
C24_Witness ==
    /\ watch = 1
    /\ Len(hist) >= 2
    /\ hist[Len(hist)] = Ev("end", hist[Len(hist)].elapsed, "ErrWrite", "playback")
    /\ song = 2
    /\ wpc = "inStart"
    /\ ~quit

\* C25: a Skip or Pause signal never takes effect on an item other than the
\* one whose frame loop was running, its mailbox drained, when the signal was
\* sent: the signal a running frame loop can receive was sent during that
\* loop's own run, so a signal sent while no item was playing, or left over
\* from an earlier item, is not there any more.
C25_NoControlLeak ==
    wpc \in PumpStates /\ Len(ctrl) > 0 => sentFor = song

\* Both calls of Pause were made before the watched item's play drained the
\* mailbox: the item is in its frame loop, started and never paused, and the
\* mailbox is empty.
C25_Witness ==
    /\ watch = 1
    /\ ~startPauses
    /\ pauseCalls = MaxCtlPause
    /\ song = watch
    /\ wpc = "loop"
    /\ hist = <<Ev("start", 0, "nil", "playback")>>
    /\ ctrl = <<>>

\* C26: the control mailbox never holds more than one signal; Skip can
\* always be called and completes in one step whatever the mailbox holds, as
\* does Pause; and a signal sent while another is pending is dropped: a full
\* mailbox changes only by a receive.
C26_Mailbox ==
    /\ [](Len(ctrl) <= CtrlCap /\ ENABLED Skip)
    /\ [][Len(ctrl) = CtrlCap /\ ctrl' # ctrl => Len(ctrl') < Len(ctrl)]_vars

\* Skip was called and then Pause, before the worker first ran: the skip
\* signal is still the pending one.
C26_Witness ==
    /\ wpc = "start"
    /\ pauseCalls = 1
    /\ ctrl = <<"skip">>

\* C27: Clear invokes onEnd(0, ErrCleared) once on each queued item, in
\* queue order, and leaves the queue empty; it invokes nothing on the item
\* being played or paused and leaves the worker's state, the elapsed time
\* included, and the mailbox as they are.
C27_Clear ==
    [][/\ mu = "Clear" /\ (ci' # ci \/ mu' # mu) =>
            /\ ci \in 1..Len(queue)
            /\ queue[ci] # song
            /\ hist' = Call(queue[ci], "end", 0, "ErrCleared", "Clear")
            /\ UNCHANGED <<workerVars, ctrl, writer>>
            /\ IF ci = Len(queue)
               THEN mu' = "free" /\ queue' = <<>>
               ELSE mu' = "Clear" /\ ci' = ci + 1 /\ queue' = queue
       /\ mu = "Clear" /\ ci' = ci /\ mu' = mu => queue' = queue
       /\ mu = "free" /\ mu' = "Clear" => ci = 1 /\ UNCHANGED <<queue, hist, workerVars, ctrl>>
      ]_vars

\* Clear has ended the watched item while the item before it stays paused
\* in its frame loop.
C27_Witness ==
    /\ watch = 2
    /\ song = 1
    /\ wpc = "loop"
    /\ ~ready
    /\ hist = <<Ev("end", 0, "ErrCleared", "Clear")>>
    /\ queue = <<>>
    /\ mu = "free"

\* C28: the idle action has been invoked exactly once when New returns;
\* after that it is invoked exactly once by each poll of the worker that
\* times out, and at no other time.
C28_IdleCalls ==
    /\ idleCalls = 1
    /\ [][/\ idleCalls' # idleCalls =>
               /\ idleCalls' = idleCalls + 1
               /\ wpc = "wait" /\ pollTimeout > 0 /\ wpc' = "poll"
          /\ wpc = "wait" /\ wpc' = "poll" => idleCalls' = idleCalls + 1
         ]_vars

\* The worker's poll timed out before the first item and again after it.
C28_Witness ==
    /\ idleCalls = 3
    /\ nextId = 2
    /\ wpc = "poll"

\* The worker's poll returns an item, from the queue or by hand-off.
ItemReceived == wpc \in {"lock", "wait"} /\ wpc' = "open"

\* The worker's poll returns errPollTimeout.
TimedOut == wpc = "wait" /\ wpc' = "poll"

\* C29: a poll of the worker times out only when it has a deadline, and the
\* polls after a timeout have none until an item is received, so the idle
\* action fires at most once, from a timeout, between two items received and
\* before the first; receiving an item sets the deadline of the polls after
\* it back to the configured idle timeout.
C29_IdleQuiescence ==
    [][/\ TimedOut => pollTimeout > 0 /\ pollTimeout' = 0
       /\ pollTimeout = 0 /\ wpc # "start" /\ ~ItemReceived => pollTimeout' = 0
       /\ ItemReceived => pollTimeout' = cfgIdleTimeout /\ song' \in Items
      ]_vars

\* The worker timed out before the first item and again after it, and is
\* now parked in a poll without a deadline.
C29_Witness ==
    /\ idleCalls = 3
    /\ cfgIdleTimeout > 0
    /\ pollTimeout = 0
    /\ wpc = "wait"

\* The frames written up to the k-th callback, counted by the progress
\* reports of an item that reports every frame.
FramesBy(k) == Cardinality({j \in 1..k : hist[j].cb = "progress"})

\* C30: the elapsed time passed to a callback is the number of frames
\* written so far times the frame duration, whatever pauses and resumes
\* came between; in particular an item ended by a failed read, the end of
\* its stream included, gets onEnd with the duration of all frames written.
C30_Elapsed ==
    /\ song = watch /\ wpc \in InCallback /\ hist # <<>> =>
         hist[Len(hist)].elapsed = nWrites * FrameDur
    /\ \A k \in DOMAIN hist :
         /\ hist[k].by # "playback" => hist[k].elapsed = 0
         /\ hist[k].by = "playback" /\ progressInterval = FrameDur =>
              hist[k].elapsed = FramesBy(k) * FrameDur

\* The watched item wrote all its frames, was paused and resumed, and ended
\* at the end of its stream.
C30_Witness ==
    /\ Len(hist) = 5
    /\ hist[1].cb = "start"
    /\ hist[2] = Ev("progress", MaxFrames * FrameDur, "nil", "playback")
    /\ hist[3].cb = "pause"
    /\ hist[4].cb = "resume"
    /\ hist[5] = Ev("end", MaxFrames * FrameDur, "ErrRead", "playback")

\* ------------------------------------------------------------ C31 .. C39
\* An item stays paused for ever on a player that is never closed.
PausedForEver == <>[](wpc = "loop" /\ ~ready /\ ~quit)

\* C31: under fair scheduling, with finite sources, an item whose Enqueue
\* returned success eventually has its onEnd invoked, unless an item stays
\* paused for ever and Close is never called; this holds for an item
\* enqueued while the worker's poll timed out or while another item played.
C31_OnEndEventually ==
    PausedForEver \/ (result[watch] = "nil" ~> Len(Ends) > 0)

\* The watched item was accepted while the item before it was in its frame
\* loop, and has ended after being played itself.
C31_Witness ==
    /\ watch = 2
    /\ result[watch] = "nil"
    /\ Len(hist) >= 2
    /\ hist[1].cb = "start"
    /\ hist[Len(hist)].cb = "end"
    /\ ~quit

\* C32: with a QueueLength below 1 the queue is unbounded: no Enqueue on the
\* open player returns ErrFull, however many items are queued.
C32_Unbounded ==
    cfgQueueLength < 1 => \A i \in Items : result[i] # "ErrFull"

\* With a negative QueueLength every item was accepted and all of them are
\* queued, more than any bound of the queue allows.
C32_Witness ==
    /\ cfgQueueLength < 0
    /\ Len(queue) = MaxItems
    /\ Len(queue) > MaxQueueLength
    /\ \A i \in Items : result[i] = "nil"

IsProgress(e) == e.cb = "progress"

\* The onProgress calls on the watched item, in order.
Progress == SelectSeq(hist, IsProgress)

\* C35: onProgress is invoked exactly after the writes whose count is a
\* positive multiple of the window floor(progressInterval / frameDur), with
\* the elapsed time at that write, and never when progressInterval is zero,
\* negative or shorter than a frame.
C35_Progress ==
    /\ progressInterval < FrameDur => Progress = <<>>
    /\ progressInterval >= FrameDur =>
         /\ \A k \in DOMAIN Progress :
              Progress[k].elapsed = k * (progressInterval \div FrameDur) * FrameDur
         /\ song = watch /\ wpc \in PumpStates \cup {"end", "inEnd"} =>
              Len(Progress) = nWrites \div (progressInterval \div FrameDur)

\* With a window of two frames the watched item has written four frames and
\* reported progress after the second and the fourth.
C35_Witness ==
    /\ progressInterval \div FrameDur = 2
    /\ progressInterval % FrameDur # 0
    /\ song = watch
    /\ nWrites = 4
    /\ Len(Progress) = 2
    /\ Progress[2].elapsed = 4 * FrameDur

\* C33: after a call of poll has returned errPollTimeout or ErrClosed, its
\* waiter is no longer in the player's waiter list: the list holds no waiter
\* whose poll has given up and closed its dead channel.
C33_WaiterGone ==
    \A k \in DOMAIN waiters : ~waiters[k].dead

\* The worker's poll gives up: it returns errPollTimeout or ErrClosed.
GivesUp == wpc = "wait" /\ wpc' \in {"poll", "exit"}

\* C33, amended: a waiter leaves the waiter list only when Enqueue pops it.
\* A poll that returns errPollTimeout or ErrClosed leaves its waiter in the
\* list with its dead channel closed, and a waiter with a closed dead
\* channel is never handed an item.
C33_WaiterMarkedDead ==
    [][/\ Len(waiters') < Len(waiters) =>
            mu = "Enqueue" /\ waiters' = Tail(waiters)
       /\ GivesUp =>
            /\ Len(waiters') = Len(waiters)
            /\ \E k \in DOMAIN waiters :
                 /\ waiters[k] = [who |-> Playback, dead |-> FALSE]
                 /\ waiters' = [waiters EXCEPT ![k].dead = TRUE]
       /\ wpc = "wait" /\ wpc' = "open" => ~Head(waiters).dead
      ]_vars

\* The worker's poll has timed out and returned, and its waiter is still in
\* the list, dead.
C33_Witness ==
    /\ wpc = "poll"
    /\ idleCalls = 2
    /\ waiters = <<[who |-> Playback, dead |-> TRUE]>>

\* C34: Enqueue always terminates. Every enrolled waiter either is parked
\* in its poll, ready to receive, or has closed its dead channel, so the
\* select of each hand-off iteration can proceed for the waiter it popped;
\* and an Enqueue that holds the mutex for its hand-off releases it.
C34_EnqueueTerminates ==
    /\ [](/\ \A k \in DOMAIN waiters : waiters[k].dead \/ Parked(waiters[k])
          /\ mu = "Enqueue" =>
               /\ waiters # <<>>
               /\ HandoffReady(firstWaiter(waiters)) # {}
               /\ ENABLED EnqueueHandoff)
    /\ (mu = "Enqueue" ~> mu # "Enqueue")

\* Enqueue holds the mutex for its hand-off and will pop the dead waiter of
\* a poll that timed out before it reaches the parked one.
C34_Witness ==
    /\ mu = "Enqueue"
    /\ waiters = <<[who |-> Playback, dead |-> TRUE], [who |-> Playback, dead |-> FALSE]>>

\* C36: the queue and the waiter list are never both non-empty: while the
\* queue holds an item no waiter, live or dead, is enrolled; and an Enqueue
\* in its hand-off finds the queue empty, so the item it hands to a waiter
\* overtakes no item enqueued before it.
C36_QueueOrWaiters ==
    /\ queue = <<>> \/ waiters = <<>>
    /\ mu = "Enqueue" => queue = <<>>

\* The worker's poll timed out and has not enrolled again; the Enqueue that
\* followed popped its dead waiter and queued the item.
C36_Witness ==
    /\ idleCalls = 2
    /\ wpc = "lock"
    /\ nextId = 2
    /\ queue = <<1>>
    /\ waiters = <<>>

\* The worker's positions from wg.Add(1) before device.Open to the return
\* of the item's onEnd.
ItemStates == {"openSrc", "play", "end", "inEnd"} \cup PumpStates

\* The count the playback goroutine itself holds in wg.
WorkerCount == IF wpc \in {"start", "done"} THEN 0 ELSE 1

\* C37: playback is serial: at most one item is between its sink-open and
\* the return of its onEnd, and when the worker holds another item every
\* callback of an item it took before, onEnd included, has been invoked and
\* has returned: that item's onEnd is its last callback and the worker is no
\* longer in it.
C37_Serial ==
    /\ wg - WorkerCount \in {0, 1}
    /\ wg - WorkerCount = 1 <=> wpc \in ItemStates
    /\ song # NoItem <=> wpc \in ItemStates \cup {"open"}
    /\ song \notin {watch, NoItem} /\ hist # <<>> => hist[Len(hist)].cb = "end"
    /\ wpc = "inEnd" /\ song = watch =>
         hist # <<>> /\ hist[Len(hist)].cb = "end" /\ hist[Len(hist)].by = "playback"

\* The watched item was played and skipped, its onEnd has returned, and the
\* sink of the next item is open.
C37_Witness ==
    /\ watch = 1
    /\ Len(hist) >= 2
    /\ hist[1].cb = "start"
    /\ hist[Len(hist)].err = "ErrSkipped"
    /\ song = 2
    /\ wpc = "openSrc"

\* C38: every onEnd is invoked without the player mutex held by the
\* goroutine that invokes it, so that an onEnd that calls Enqueue, Playlist
\* or Clear on the player, which lock that mutex, returns: Clear and Close
\* do not hold the mutex in the step in which they invoke an onEnd.
C38_OnEndUnlocked ==
    [][hist' # hist /\ hist'[Len(hist')].cb = "end" =>
          hist'[Len(hist')].by = "playback" \/ mu # hist'[Len(hist')].by]_vars

\* C39: Device.Open releases the device mutex on every return path, a
\* failed join of the voice channel included: whenever no call of Open is
\* in progress the mutex is free, so that a later Open is not blocked.
C39_OpenUnlocks ==
    dpc = "idle" => ~dmu


====
